---- MODULE Spec2Model ----
(***************************************************************************)
(* zscp: one invocation of rootCmd.Run (the command's Run function) and    *)
(* the zsshlib helpers it calls.  Strings the program inspects character   *)
(* by character (the two positional arguments, paths) are sequences of     *)
(* one-character strings; strings it only passes along are TLA+ strings.   *)
(***************************************************************************)
EXTENDS Integers, Sequences, FiniteSets, TLC

\* ------------------------------------------------------------------------
\* Bounds of the model
\* ------------------------------------------------------------------------

\* Largest number of entries below the root of the local tree that WalkDir walks,
\* and of callback invocations it makes after the first.
MaxEntries == 2

\* Largest number of goroutines that call Config() on one factory.
MaxCallers == 2

\* Largest number of Config() calls one goroutine makes.
MaxCalls == 2

\* ------------------------------------------------------------------------
\* Go standard library string and path functions, as the code uses them
\* ------------------------------------------------------------------------

\* strings.ContainsAny(s, c) / strings.Contains(s, c) for a one-character c
ContainsAny(s, c) == \E i \in DOMAIN s : s[i] = c

\* index of the first c in s, 0 when there is none
IndexOf(s, c) == IF ContainsAny(s, c) THEN CHOOSE i \in DOMAIN s : s[i] = c /\ \A j \in 1..(i - 1) : s[j] # c ELSE 0

\* index of the last c in s, 0 when there is none
LastIndexOf(s, c) == IF ContainsAny(s, c) THEN CHOOSE i \in DOMAIN s : s[i] = c /\ \A j \in (i + 1)..Len(s) : s[j] # c ELSE 0

\* strings.Split(s, c): every piece between separators, n+1 pieces for n separators
RECURSIVE Split(_, _)
Split(s, c) ==
    LET i == IndexOf(s, c)
    IN  IF i = 0 THEN <<s>>
        ELSE <<SubSeq(s, 1, i - 1)>> \o Split(SubSeq(s, i + 1, Len(s)), c)

\* s without its trailing '/' characters
RECURSIVE StripTrailingSlashes(_)
StripTrailingSlashes(s) ==
    IF Len(s) > 0 /\ s[Len(s)] = "/" THEN StripTrailingSlashes(SubSeq(s, 1, Len(s) - 1)) ELSE s

\* filepath.Base(path)
Base(path) ==
    IF path = <<>> THEN <<".">>
    ELSE LET p == StripTrailingSlashes(path)
             i == LastIndexOf(p, "/")
             q == SubSeq(p, i + 1, Len(p))
         IN  IF q = <<>> THEN <<"/">> ELSE q

\* the elements of a path that Clean keeps, ".." resolved against what precedes it
RECURSIVE CleanElems(_, _, _)
CleanElems(elems, rooted, acc) ==
    IF elems = <<>> THEN acc
    ELSE LET e == Head(elems)
             rest == Tail(elems)
         IN  IF e = <<>> \/ e = <<".">> THEN CleanElems(rest, rooted, acc)
             ELSE IF e = <<".", ".">>
                  THEN IF Len(acc) > 0 /\ acc[Len(acc)] # <<".", ".">>
                       THEN CleanElems(rest, rooted, SubSeq(acc, 1, Len(acc) - 1))
                       ELSE IF rooted THEN CleanElems(rest, rooted, acc)
                       ELSE CleanElems(rest, rooted, Append(acc, e))
                  ELSE CleanElems(rest, rooted, Append(acc, e))

\* elements joined with '/'
RECURSIVE JoinElems(_)
JoinElems(elems) ==
    IF elems = <<>> THEN <<>>
    ELSE IF Len(elems) = 1 THEN Head(elems)
    ELSE Head(elems) \o <<"/">> \o JoinElems(Tail(elems))

\* filepath.Clean(path)
Clean(path) ==
    LET rooted == Len(path) > 0 /\ path[1] = "/"
        body == JoinElems(CleanElems(Split(path, "/"), rooted, <<>>))
    IN  IF rooted THEN <<"/">> \o body
        ELSE IF body = <<>> THEN <<".">> ELSE body

\* filepath.Join(a, b): empty elements ignored, the rest joined and cleaned
Join(a, b) ==
    IF a = <<>> /\ b = <<>> THEN <<>>
    ELSE IF a = <<>> THEN Clean(b)
    ELSE IF b = <<>> THEN Clean(a)
    ELSE Clean(a \o <<"/">> \o b)

\* ------------------------------------------------------------------------
\* Inputs of one invocation
\* ------------------------------------------------------------------------

\* cobra.ExactValidArgs(2): the two positional arguments of the invocations explored
RunArgs ==
    { <<<<"a">>, <<"u", "@", "h", ":", "/", "d">>>>,
      <<<<"a">>, <<"h", ":", "/", "d">>>>,
      <<<<"a">>, <<"u", "@", "h", ":">>>>,
      <<<<"c", "/", "a">>, <<"u", "@", "h", ":", "d">>>>,
      <<<<"a">>, <<"u", "@", "h", "@", "g", ":", "d", ":", "e">>>>,
      <<<<"u", "@", "h", ":", "/", "d">>, <<"a">>>>,
      <<<<"h", ":", "/", "d">>, <<"a">>>>,
      <<<<"u", "@", "h", ":", "/", "d", ":", "e">>, <<"a">>>>,
      <<<<"h", ":", "/", "d">>, <<"g", ":", "/", "e">>>>,
      <<<<"a">>, <<"b">>>>,
      <<<<"a">>, <<"u", "@", "h">>>>,
      <<<<>>, <<>>>> }

\* the --SshKeyPath/-i and --ZConfig/-c flags: "" when the flag is absent
KeyFlagValues == {"", "keyfile"}
ConfigFlagValues == {"", "cfgfile"}

\* what user.Current() can report as Username: a plain name or DOMAIN\name
OsUserNames == { <<"m">>, <<"D", "\\", "m">> }

\* runtime.GOOS
GoosValues == {"linux", "windows"}

VARIABLES
    pc,              \* position in rootCmd.Run, or how the process ended
    args,            \* args[1], args[2]: Go's args[0], args[1]
    recursive,       \* the --recursive flag
    SshKeyPath,      \* the package variable SshKeyPath
    ZConfig,         \* the package variable ZConfig
    username,
    targetIdentity,
    remoteFilePath,
    localFilePath,
    isCopyToRemote,
    fatalReason,     \* which fatal log call ended the process ("" while running)
    ctx,             \* the ziti context: "none" or "open"
    svc,             \* the dialed connection: "none", "open" or "closed"
    dialIdentity,    \* DialOptions.Identity of the dial, <<"?">> before it
    factory,         \* the SshConfigFactoryImpl, [made |-> FALSE] before it exists
    sshConn,         \* the ssh client: "none" or "open"
    client,          \* the sftp client: "none", "open" or "closed"
    defers,          \* the deferred closes of Run, in registration order
    plan,            \* the callback invocations WalkDir makes if none returns an error
    pos,             \* index in plan of the next callback invocation
    walkErr,         \* the callback returned an error, so WalkDir returns it
    transfers,       \* each transfer request made: source, destination, outcome
    ops              \* the file operations performed, local and remote, in order

\* One SshConfigFactoryImpl whose Config() is called more than once
VARIABLES
    once,            \* resolveAuthOnce: "fresh", "running" (a call is inside Do) or "done"
    callers,         \* per goroutine: where it is in Config(), and the calls it has made
    resolving,       \* the locals of the function run by resolveAuthOnce.Do
    returned         \* what each Config() call returned, in order of return

\* One call of EstablishClient
VARIABLES
    token,           \* the token parameter of EstablishClient
    jwt              \* the JWT held by conf.Credentials, "" when none was added

\* One call of GetToken
VARIABLES
    config,          \* the Config GetToken is given a pointer to
    given,           \* that Config as it was when GetToken was called
    tokenPc,         \* where GetToken is
    relyingParty,    \* the relying party: "none", or whether it was made with PKCE
    codeFlow,        \* cli.CodeFlow (callback listener, browser): "none" or "run"
    tokenResult      \* what GetToken returned: the token and the error

\* One call of SendFile or of RetrieveRemoteFiles
VARIABLES
    files,           \* the content of the local and of the remote file, or "absent"
    filesBefore,     \* files as it was when the function was called
    call,            \* the function called, where it is, its locals and its result
    handles,         \* the remote and the local file handle: "none", "open", "closed"
    fileLog          \* the file operations requested, in order

configVars == <<once, callers, resolving, returned>>
establishVars == <<token, jwt>>
tokenVars == <<config, given, tokenPc, relyingParty, codeFlow, tokenResult>>
fileVars == <<files, filesBefore, call, handles, fileLog>>
libVars == <<configVars, establishVars, tokenVars, fileVars>>

vars == <<libVars, pc, args, recursive, SshKeyPath, ZConfig, username, targetIdentity,
          remoteFilePath, localFilePath, isCopyToRemote, fatalReason, ctx, svc,
          dialIdentity, factory, sshConn, client, defers, plan, pos, walkErr,
          transfers, ops>>

inputVars == <<args, recursive>>
flagVars == <<SshKeyPath, ZConfig>>
parseVars == <<username, targetIdentity, remoteFilePath, localFilePath, isCopyToRemote>>
sessionVars == <<ctx, svc, dialIdentity, factory, sshConn, client, defers>>
transferVars == <<plan, pos, walkErr, transfers, ops>>

NoString == <<"?">>

\* the locals of the function run by resolveAuthOnce.Do before it has run
NotResolving == [keyOutcome |-> "?", agent |-> "?", methods |-> <<>>]

\* no Config() caller besides Run itself
ConfigIdle ==
    /\ once = "fresh"
    /\ callers = <<>>
    /\ resolving = NotResolving
    /\ returned = <<>>

\* no EstablishClient call
EstablishIdle ==
    /\ token = ""
    /\ jwt = ""

\* the fields of Config that GetToken and validateAndSetDefaults use
NoConfig == [ClientID |-> "", ClientSecret |-> "", HashKey |-> "nil", BlockKey |-> "nil",
             Logf |-> "nil", Scopes |-> <<>>]

NoResult == [token |-> "?", err |-> "?"]

\* no GetToken call
TokenIdle ==
    /\ config = NoConfig
    /\ given = NoConfig
    /\ tokenPc = "idle"
    /\ relyingParty = "none"
    /\ codeFlow = "none"
    /\ tokenResult = NoResult

NoCall == [fn |-> "none", pc |-> "idle", localPath |-> NoString, remotePath |-> NoString,
           buf |-> "", err |-> "?", defers |-> <<>>]
NoHandles == [remote |-> "none", local |-> "none"]

\* no SendFile or RetrieveRemoteFiles call other than those of Run
FilesIdle ==
    /\ files = [local |-> "absent", remote |-> "absent"]
    /\ filesBefore = files
    /\ call = NoCall
    /\ handles = NoHandles
    /\ fileLog = <<>>

LibIdle == ConfigIdle /\ EstablishIdle /\ TokenIdle /\ FilesIdle

Init ==
    /\ LibIdle
    /\ pc = "start"
    /\ args \in RunArgs
    /\ recursive \in BOOLEAN
    /\ SshKeyPath \in KeyFlagValues
    /\ ZConfig \in ConfigFlagValues
    /\ username = NoString
    /\ targetIdentity = NoString
    /\ remoteFilePath = NoString
    /\ localFilePath = NoString
    /\ isCopyToRemote = FALSE
    /\ fatalReason = ""
    /\ ctx = "none"
    /\ svc = "none"
    /\ dialIdentity = NoString
    /\ factory = [made |-> FALSE]
    /\ sshConn = "none"
    /\ client = "none"
    /\ defers = <<>>
    /\ plan = <<>>
    /\ pos = 1
    /\ walkErr = FALSE
    /\ transfers = <<>>
    /\ ops = <<>>

\* a fatal log call that logs and carries on instead of ending the process
FatalWithoutExit(reason) ==
    /\ pc' = "context"
    /\ fatalReason' = reason

\* logrus.Fatal / log.Fatalf: the message is logged and os.Exit(1) ends the process
\* at once; no deferred function runs.
Fatal(reason) ==
    /\ pc' = "fatal"
    /\ fatalReason' = reason

\* lines 35-55: the default key and configuration paths
ResolveDefaults ==
    /\ pc = "start"
    /\ \E homeOk \in BOOLEAN :
        IF (SshKeyPath = "" \/ ZConfig = "") /\ ~homeOk
        THEN /\ Fatal("home")
             /\ UNCHANGED flagVars
        ELSE /\ SshKeyPath' = IF SshKeyPath = "" THEN "HOME/.ssh/id_rsa" ELSE SshKeyPath
             /\ ZConfig' = IF ZConfig = "" THEN "HOME/.ziti/zssh.json" ELSE ZConfig
             /\ pc' = "interpret"
             /\ UNCHANGED fatalReason
    /\ UNCHANGED <<libVars, inputVars, parseVars, sessionVars, transferVars>>

\* lines 63-74: which argument is the remote one
Direction(a) ==
    IF ContainsAny(a[1], ":") THEN "download"
    ELSE IF ContainsAny(a[2], ":") THEN "upload"
    ELSE "ambiguous"

\* lines 64, 69: the argument taken as remote, before it is split
RemoteArg(a) == IF Direction(a) = "download" THEN a[1] ELSE a[2]

\* lines 65, 70: the argument taken as the local path
LocalArg(a) == IF Direction(a) = "download" THEN a[2] ELSE a[1]

\* lines 76-77: the remote path is the second piece of the split at ':'
RemotePathOf(remoteArg) == Split(remoteArg, ":")[2]

\* line 76: the part before the first ':'
PrefixOf(remoteArg) == Split(remoteArg, ":")[1]

\* lines 80-81: the user name of a prefix that contains '@'
UserOfPrefix(prefix) == Split(prefix, "@")[1]

\* lines 80, 82: the identity of a prefix that contains '@'
IdentityOfPrefix(prefix) == Split(prefix, "@")[2]

\* line 93: the identity when the prefix contains no '@'
IdentityWithoutUser(a) == a[1]

\* lines 89-92: the OS user name, its domain stripped on windows
LocalUserName(name, goos) ==
    IF ContainsAny(name, "\\") /\ goos = "windows" THEN Split(name, "\\")[2] ELSE name

\* lines 57-98: direction, paths, user and identity from the two arguments
Interpret ==
    /\ pc = "interpret"
    /\ IF Direction(args) = "ambiguous"
       THEN /\ Fatal("ambiguous")
            /\ UNCHANGED parseVars
       ELSE LET prefix == PrefixOf(RemoteArg(args))
            IN  /\ localFilePath' = LocalArg(args)
                /\ isCopyToRemote' = (Direction(args) = "upload")
                /\ remoteFilePath' = RemotePathOf(RemoteArg(args))
                /\ IF ContainsAny(prefix, "@")
                   THEN /\ username' = UserOfPrefix(prefix)
                        /\ targetIdentity' = IdentityOfPrefix(prefix)
                        /\ pc' = "context"
                        /\ UNCHANGED fatalReason
                   ELSE \E userOk \in BOOLEAN, name \in OsUserNames, goos \in GoosValues :
                            IF ~userOk
                            THEN /\ Fatal("user")
                                 /\ UNCHANGED <<username, targetIdentity>>
                            ELSE /\ username' = LocalUserName(name, goos)
                                 /\ targetIdentity' = IdentityWithoutUser(args)
                                 /\ pc' = "context"
                                 /\ UNCHANGED fatalReason
    /\ UNCHANGED <<libVars, inputVars, flagVars, sessionVars, transferVars>>

\* line 100 and getConfig (lines 180-186): the configuration file is loaded and
\* the ziti context made from it
OpenContext ==
    /\ pc = "context"
    /\ \E loaded \in BOOLEAN :
        IF loaded
        THEN /\ ctx' = "open"
             /\ pc' = "service"
             /\ UNCHANGED fatalReason
        ELSE /\ Fatal("config")
             /\ UNCHANGED ctx
    /\ UNCHANGED <<libVars, inputVars, flagVars, parseVars, svc, dialIdentity, factory,
                   sshConn, client, defers, transferVars>>

\* lines 102-105: the service must be one the context knows
CheckService ==
    /\ pc = "service"
    /\ \E ok \in BOOLEAN :
        IF ok
        THEN /\ pc' = "dial"
             /\ UNCHANGED fatalReason
        ELSE Fatal("service")
    /\ UNCHANGED <<libVars, inputVars, flagVars, parseVars, sessionVars, transferVars>>

\* lines 107-116: the service is dialed with targetIdentity; the close of the
\* connection is deferred before the error is looked at
DialService ==
    /\ pc = "dial"
    /\ dialIdentity' = targetIdentity
    /\ defers' = Append(defers, "svc")
    /\ \E ok \in BOOLEAN :
        IF ok
        THEN /\ svc' = "open"
             /\ pc' = "creds"
             /\ UNCHANGED fatalReason
        ELSE /\ Fatal("dial")
             /\ UNCHANGED svc
    /\ UNCHANGED <<libVars, inputVars, flagVars, parseVars, ctx, factory, sshConn, client,
                   transferVars>>

\* The deferred functions of Run (lines 113, 127) run when Run returns or panics:
\* each closes what it was registered for.
SvcAfterDefers == IF \E i \in DOMAIN defers : defers[i] = "svc" THEN "closed" ELSE svc
ClientAfterDefers == IF \E i \in DOMAIN defers : defers[i] = "client" THEN "closed" ELSE client

\* A run-time panic in Run's goroutine: the deferred functions run, then the
\* process ends with status 2.
Panic ==
    /\ pc' = "panic"
    /\ svc' = SvcAfterDefers
    /\ client' = ClientAfterDefers
    /\ UNCHANGED fatalReason

\* what reading and parsing the key file can come to (ioutil.ReadFile, then
\* ssh.ParsePrivateKey)
KeyFileOutcomes == {"ok", "unreadable", "nokey", "passphrase", "malformed"}

\* the text of the error ssh.ParsePrivateKey returns, by outcome
ParseErrorText(o) ==
    CASE o = "nokey" -> "ssh: no key found"
      [] o = "passphrase" -> "ssh: this private key is passphrase protected"
      [] OTHER -> "ssh: malformed key"

\* sshAuthMethodFromFile: "method" (a key method, nil error), "error" (nil, an
\* error) or "panic": the single-value type assertion of line 273 panics on an
\* error that is not a *ssh.PassphraseMissingError
AuthMethodFromFile(o) ==
    IF o = "unreadable" THEN "error"
    ELSE IF o = "ok" THEN "method"
    ELSE IF ParseErrorText(o) = "zssh: no key found" THEN "error"
    ELSE IF o = "passphrase" THEN "error"
    ELSE "panic"

\* the body of resolveAuthOnce.Do in Config: the methods gathered, file key first
ResolvedMethods(o, agent) ==
    (IF AuthMethodFromFile(o) = "method" THEN <<"file">> ELSE <<>>)
        \o (IF agent THEN <<"agent">> ELSE <<>>)

\* how many times sshAuthMethodAgent is called in one resolution (lines 246-247)
AgentCalls(agent) == IF agent THEN 2 ELSE 1

\* NewSshConfigFactoryImpl (lines 207-215)
NewSshConfigFactoryImpl(user, keyPath) ==
    [made |-> TRUE, user |-> user, host |-> "", port |-> 22, keyPath |-> keyPath,
     resolved |-> FALSE, authMethods |-> <<>>, keyReads |-> 0, agentProbes |-> 0]

\* lines 117-118: the factory is made and Config() resolves the credentials
ResolveCredentials ==
    /\ pc = "creds"
    /\ \E o \in KeyFileOutcomes, agent \in BOOLEAN :
        LET f == NewSshConfigFactoryImpl(username, SshKeyPath)
        IN  IF AuthMethodFromFile(o) = "panic"
            THEN /\ factory' = [f EXCEPT !.keyReads = 1]
                 /\ Panic
            ELSE /\ factory' = [f EXCEPT !.resolved = TRUE,
                                         !.authMethods = ResolvedMethods(o, agent),
                                         !.keyReads = 1,
                                         !.agentProbes = AgentCalls(agent)]
                 /\ pc' = "sshdial"
                 /\ UNCHANGED <<fatalReason, svc, client>>
    /\ UNCHANGED <<libVars, inputVars, flagVars, parseVars, ctx, dialIdentity, sshConn,
                   defers, transferVars>>

\* lines 119-122 and Dial (ssh.go 103-109): the ssh handshake over the connection
SshDial ==
    /\ pc = "sshdial"
    /\ \E ok \in BOOLEAN :
        IF ok
        THEN /\ sshConn' = "open"
             /\ pc' = "sftp"
             /\ UNCHANGED fatalReason
        ELSE /\ Fatal("ssh")
             /\ UNCHANGED sshConn
    /\ UNCHANGED <<libVars, inputVars, flagVars, parseVars, ctx, svc, dialIdentity, factory,
                   client, defers, transferVars>>

\* lines 123-127: the sftp client; its close is deferred once it exists
NewSftpClient ==
    /\ pc = "sftp"
    /\ \E ok \in BOOLEAN :
        IF ok
        THEN /\ client' = "open"
             /\ defers' = Append(defers, "client")
             /\ pc' = "dispatch"
             /\ UNCHANGED fatalReason
        ELSE /\ Fatal("sftp")
             /\ UNCHANGED <<client, defers>>
    /\ UNCHANGED <<libVars, inputVars, flagVars, parseVars, ctx, svc, dialIdentity, factory,
                   sshConn, transferVars>>

\* ------------------------------------------------------------------------
\* The local tree and filepath.WalkDir
\* ------------------------------------------------------------------------

\* file names that occur in the local tree, in the lexical order ReadDir returns
NameOrder == <<"b", "x", "y">>
Names == {NameOrder[i] : i \in DOMAIN NameOrder}

\* An entry below the root is named by its path relative to the root, a sequence
\* of names; <<>> is the root itself.  The sets of such entries, closed under
\* taking the parent, with at most n entries.
RECURSIVE Shapes(_)
Shapes(n) ==
    IF n = 0 THEN {{}}
    ELSE LET S == Shapes(n - 1)
         IN  S \cup UNION { { s \cup {Append(r, c)} : r \in s \cup {<<>>}, c \in Names } : s \in S }

HasChild(s, r) == \E q \in s : Len(q) = Len(r) + 1 /\ SubSeq(q, 1, Len(r)) = r

\* what Lstat/ReadDir find at an entry: a file, a directory, a directory whose
\* ReadDir fails ("udir"), or nothing at all (the root only: Lstat fails)
EntryKinds == {"file", "dir", "udir", "missing"}

TreesOf(s) ==
    { t \in [s \cup {<<>>} -> EntryKinds] :
        \A r \in DOMAIN t : /\ HasChild(s, r) => t[r] = "dir"
                            /\ t[r] = "missing" => r = <<>> }

\* the path WalkDir hands to the callback: the root as given, below it
\* filepath.Join(parent path, name)
RECURSIVE PathOf(_, _)
PathOf(root, rel) ==
    IF rel = <<>> THEN root
    ELSE Join(PathOf(root, SubSeq(rel, 1, Len(rel) - 1)), <<rel[Len(rel)]>>)

Visit(root, rel, info, err) == [path |-> PathOf(root, rel), rel |-> rel, info |-> info, err |-> err]

\* The callback invocations of WalkDir(root, fn) on tree t while fn returns nil,
\* in order: an entry before what is below it, the names of a directory in
\* lexical order, a second invocation carrying the error when ReadDir fails, and
\* a single invocation with a nil DirEntry when Lstat of the root fails.
RECURSIVE VisitsFrom(_, _, _)
RECURSIVE VisitsBelow(_, _, _, _)
\* a walk that hands a directory to the callback after what is below it
VisitsFromPostOrder(t, root, rel) ==
    CASE t[rel] = "missing" -> <<Visit(root, rel, "nil", TRUE)>>
      [] t[rel] = "file" -> <<Visit(root, rel, "file", FALSE)>>
      [] t[rel] = "udir" -> <<Visit(root, rel, "dir", FALSE), Visit(root, rel, "dir", TRUE)>>
      [] t[rel] = "dir" -> VisitsBelow(t, root, rel, 1) \o <<Visit(root, rel, "dir", FALSE)>>

VisitsFrom(t, root, rel) ==
    CASE t[rel] = "missing" -> <<Visit(root, rel, "nil", TRUE)>>
      [] t[rel] = "file" -> <<Visit(root, rel, "file", FALSE)>>
      [] t[rel] = "udir" -> <<Visit(root, rel, "dir", FALSE), Visit(root, rel, "dir", TRUE)>>
      [] t[rel] = "dir" -> <<Visit(root, rel, "dir", FALSE)>> \o VisitsBelow(t, root, rel, 1)

VisitsBelow(t, root, rel, i) ==
    IF i > Len(NameOrder) THEN <<>>
    ELSE (IF Append(rel, NameOrder[i]) \in DOMAIN t
          THEN VisitsFrom(t, root, Append(rel, NameOrder[i]))
          ELSE <<>>) \o VisitsBelow(t, root, rel, i + 1)

WalkPlan(t, root) == VisitsFrom(t, root, <<>>)

\* the local trees explored
LocalTrees ==
    { t \in UNION { TreesOf(s) : s \in Shapes(MaxEntries) } :
        Len(WalkPlan(t, <<>>)) <= MaxEntries + 1 }

\* ------------------------------------------------------------------------
\* The transfers
\* ------------------------------------------------------------------------

Op(op, path, ok) == [op |-> op, path |-> path, ok |-> ok]

\* how one SendFile call can go
SendOutcomes == {"readfail", "openfail", "writefail", "ok"}

\* SendFile (ssh.go 281-301): the local file is read whole, the remote file
\* opened (created or truncated), written, and closed by the deferred Close.
\* The file operations it performs and whether it returns an error.
SendFile(localPath, remotePath, outcome) ==
    CASE outcome = "readfail" ->
            [ops |-> <<Op("lread", localPath, FALSE)>>, err |-> TRUE]
      [] outcome = "openfail" ->
            [ops |-> <<Op("lread", localPath, TRUE), Op("ropen", remotePath, FALSE)>>,
             err |-> TRUE]
      [] outcome = "writefail" ->
            [ops |-> <<Op("lread", localPath, TRUE), Op("ropen", remotePath, TRUE),
                       Op("rwrite", remotePath, FALSE), Op("rclose", remotePath, TRUE)>>,
             err |-> TRUE]
      [] outcome = "ok" ->
            [ops |-> <<Op("lread", localPath, TRUE), Op("ropen", remotePath, TRUE),
                       Op("rwrite", remotePath, TRUE), Op("rclose", remotePath, TRUE)>>,
             err |-> FALSE]

\* how one RetrieveRemoteFiles call can go
RetrieveOutcomes == {"ropenfail", "lopenfail", "copyfail", "ok"}

\* RetrieveRemoteFiles (ssh.go 303-324): the remote file is opened, the local
\* file created or truncated, the content copied; the deferred closes run on
\* every return after the open they follow.
RetrieveRemoteFiles(localPath, remotePath, outcome) ==
    CASE outcome = "ropenfail" ->
            [ops |-> <<Op("ropen", remotePath, FALSE)>>, err |-> TRUE]
      [] outcome = "lopenfail" ->
            [ops |-> <<Op("ropen", remotePath, TRUE), Op("lopen", localPath, FALSE),
                       Op("rclose", remotePath, TRUE)>>,
             err |-> TRUE]
      [] outcome = "copyfail" ->
            [ops |-> <<Op("ropen", remotePath, TRUE), Op("lopen", localPath, TRUE),
                       Op("copy", localPath, FALSE), Op("lclose", localPath, TRUE),
                       Op("rclose", remotePath, TRUE)>>,
             err |-> TRUE]
      [] outcome = "ok" ->
            [ops |-> <<Op("ropen", remotePath, TRUE), Op("lopen", localPath, TRUE),
                       Op("copy", localPath, TRUE), Op("lclose", localPath, TRUE),
                       Op("rclose", remotePath, TRUE)>>,
             err |-> FALSE]

\* AppendBaseName (ssh.go 373-387): lstat is what c.Lstat(remotePath) finds,
\* "dir", "file" or "error"
AppendBaseName(remotePath, localPath, lstat) ==
    IF remotePath = <<>> THEN Base(Base(localPath))
    ELSE IF lstat = "dir" THEN Join(remotePath, Base(localPath))
    ELSE remotePath

\* one transfer request: what was to be sent where, and how the call ended
Transfer(kind, src, dst, err) == [kind |-> kind, src |-> src, dst |-> dst, err |-> err]

\* line 132: where the callback sends the entry at path
RemoteDestination(remotePath, path) == Join(remotePath, Base(path))

\* line 131: filepath.WalkDir(localFilePath, ...) starts on the local tree it finds
WalkStart ==
    /\ pc = "dispatch"
    /\ isCopyToRemote /\ recursive
    /\ \E t \in LocalTrees : plan' = WalkPlan(t, localFilePath)
    /\ pos' = 1
    /\ pc' = "walk"
    /\ UNCHANGED <<libVars, inputVars, flagVars, parseVars, fatalReason, sessionVars, walkErr,
                   transfers, ops>>

\* a callback that logs the error of SendFile and returns nil, as it does for Mkdir
CallbackDropsError(isDir, err) == FALSE

\* a callback that returns the error of Mkdir as it returns that of SendFile
CallbackReturnsAnyError(isDir, err) == err

\* lines 143, 148: whether the callback returns the error of its SendFile call
CallbackReturnsError(isDir, err) == ~isDir /\ err

\* lines 131-149: one invocation of the callback.  The error WalkDir passes in is
\* overwritten unread; a nil DirEntry makes info.IsDir() panic.
WalkStep ==
    /\ pc = "walk"
    /\ ~walkErr
    /\ pos <= Len(plan)
    /\ LET v == plan[pos]
           remoteDestination == RemoteDestination(remoteFilePath, v.path)
       IN  CASE v.info = "nil" ->
                    /\ Panic
                    /\ UNCHANGED <<pos, walkErr, transfers, ops>>
             [] v.info = "dir" ->
                    \E ok \in BOOLEAN :
                        /\ ops' = Append(ops, Op("mkdir", remoteDestination, ok))
                        /\ transfers' = Append(transfers, Transfer("dir", v.path, remoteDestination, ~ok))
                        /\ walkErr' = CallbackReturnsError(TRUE, ~ok)
                        /\ pos' = pos + 1
                        /\ UNCHANGED <<pc, fatalReason, svc, client>>
             [] v.info = "file" ->
                    \E outcome \in SendOutcomes :
                        LET r == SendFile(v.path, remoteDestination, outcome)
                        IN  /\ ops' = ops \o r.ops
                            /\ transfers' = Append(transfers, Transfer("file", v.path, remoteDestination, r.err))
                            /\ walkErr' = CallbackReturnsError(FALSE, r.err)
                            /\ pos' = pos + 1
                            /\ UNCHANGED <<pc, fatalReason, svc, client>>
    /\ UNCHANGED <<libVars, inputVars, flagVars, parseVars, ctx, dialIdentity, factory, sshConn,
                   defers, plan>>

\* lines 150-152: WalkDir has returned; its error is fatal
WalkEnd ==
    /\ pc = "walk"
    /\ walkErr \/ pos > Len(plan)
    /\ IF walkErr
       THEN Fatal("walk")
       ELSE /\ pc' = "return"
            /\ UNCHANGED fatalReason
    /\ UNCHANGED <<libVars, inputVars, flagVars, parseVars, sessionVars, transferVars>>

\* line 154: a single file is sent to the remote path as given; the error
\* SendFile returns is not looked at
SingleUpload ==
    /\ pc = "dispatch"
    /\ isCopyToRemote /\ ~recursive
    /\ \E outcome \in SendOutcomes :
        LET r == SendFile(localFilePath, remoteFilePath, outcome)
        IN  /\ ops' = ops \o r.ops
            /\ transfers' = Append(transfers, Transfer("file", localFilePath, remoteFilePath, r.err))
    /\ pc' = "return"
    /\ UNCHANGED <<libVars, inputVars, flagVars, parseVars, fatalReason, sessionVars, plan, pos,
                   walkErr>>

\* line 157: a single file is retrieved; the error RetrieveRemoteFiles returns
\* is not looked at.  (The call passes factory and svc ahead of the two paths,
\* which RetrieveRemoteFiles as declared in ssh.go does not take; the paths are
\* what the transfer depends on.)
Download ==
    /\ pc = "dispatch"
    /\ ~isCopyToRemote
    /\ \E outcome \in RetrieveOutcomes :
        LET r == RetrieveRemoteFiles(localFilePath, remoteFilePath, outcome)
        IN  /\ ops' = ops \o r.ops
            /\ transfers' = Append(transfers, Transfer("get", remoteFilePath, localFilePath, r.err))
    /\ pc' = "return"
    /\ UNCHANGED <<libVars, inputVars, flagVars, parseVars, fatalReason, sessionVars, plan, pos,
                   walkErr>>

\* line 159: Run returns; its deferred closes run, and the process exits with 0
Return ==
    /\ pc = "return"
    /\ pc' = "done"
    /\ svc' = SvcAfterDefers
    /\ client' = ClientAfterDefers
    /\ UNCHANGED <<libVars, inputVars, flagVars, parseVars, fatalReason, ctx, dialIdentity,
                   factory, sshConn, defers, transferVars>>

Next ==
    \/ ResolveDefaults
    \/ Interpret
    \/ OpenContext
    \/ CheckService
    \/ DialService
    \/ ResolveCredentials
    \/ SshDial
    \/ NewSftpClient
    \/ WalkStart
    \/ WalkStep
    \/ WalkEnd
    \/ SingleUpload
    \/ Download
    \/ Return

Spec == Init /\ [][Next]_vars

\* how the process ended
Terminated == pc \in {"done", "fatal", "panic"}
ExitStatus == CASE pc = "done" -> 0 [] pc = "fatal" -> 1 [] pc = "panic" -> 2 [] OTHER -> -1

\* ------------------------------------------------------------------------
\* SshConfigFactoryImpl.Config called repeatedly and concurrently
\* ------------------------------------------------------------------------

\* the variables of Run with no invocation of Run under way
RunIdle ==
    /\ pc = "lib"
    /\ args = <<<<>>, <<>>>>
    /\ recursive = FALSE
    /\ SshKeyPath = ""
    /\ ZConfig = ""
    /\ username = NoString
    /\ targetIdentity = NoString
    /\ remoteFilePath = NoString
    /\ localFilePath = NoString
    /\ isCopyToRemote = FALSE
    /\ fatalReason = ""
    /\ ctx = "none"
    /\ svc = "none"
    /\ dialIdentity = NoString
    /\ sshConn = "none"
    /\ client = "none"
    /\ defers = <<>>
    /\ plan = <<>>
    /\ pos = 1
    /\ walkErr = FALSE
    /\ transfers = <<>>
    /\ ops = <<>>

\* every variable of Run but the factory
aroundFactory == <<pc, fatalReason, inputVars, flagVars, parseVars, ctx, svc,
                   dialIdentity, sshConn, client, defers, transferVars, establishVars,
                   tokenVars, fileVars>>

Callers == 1..MaxCallers

\* users and key paths the factory is made with
FactoryUsers == { <<"u">>, <<"m">> }
FactoryKeyPaths == {"keyfile", "HOME/.ssh/id_rsa"}

InitConfig ==
    /\ RunIdle
    /\ EstablishIdle
    /\ TokenIdle
    /\ FilesIdle
    /\ \E user \in FactoryUsers, keyPath \in FactoryKeyPaths :
        factory = NewSshConfigFactoryImpl(user, keyPath)
    /\ once = "fresh"
    /\ callers = [c \in Callers |-> [pc |-> "idle", calls |-> 0]]
    /\ resolving = NotResolving
    /\ returned = <<>>

\* a panic inside Config ends the whole process: nothing runs after it
ProcessAlive == \A c \in DOMAIN callers : callers[c].pc # "panicked"

\* line 237: Config() enters resolveAuthOnce.Do.  The first call runs the
\* function; a call made while it runs waits for it; a later call skips it.
ConfigCall ==
    /\ ProcessAlive
    /\ \E c \in DOMAIN callers :
        /\ callers[c].pc = "idle"
        /\ callers[c].calls < MaxCalls
        /\ once # "running"
        /\ IF once = "fresh"
           THEN /\ once' = "running"
                /\ callers' = [callers EXCEPT ![c].pc = "file"]
           ELSE /\ callers' = [callers EXCEPT ![c].pc = "ret"]
                /\ UNCHANGED once
    /\ UNCHANGED <<aroundFactory, factory, resolving, returned>>

\* lines 240-244: sshAuthMethodFromFile reads and parses the key file; its panic
\* leaves Do (which counts the function as run) and ends the process
ReadKeyFile ==
    /\ ProcessAlive
    /\ \E c \in DOMAIN callers :
        /\ callers[c].pc = "file"
        /\ \E o \in KeyFileOutcomes :
            /\ factory' = [factory EXCEPT !.keyReads = @ + 1]
            /\ resolving' = [resolving EXCEPT !.keyOutcome = o,
                                              !.methods = ResolvedMethods(o, FALSE)]
            /\ IF AuthMethodFromFile(o) = "panic"
               THEN /\ callers' = [callers EXCEPT ![c].pc = "panicked"]
                    /\ once' = "done"
               ELSE /\ callers' = [callers EXCEPT ![c].pc = "agent"]
                    /\ UNCHANGED once
    /\ UNCHANGED <<aroundFactory, returned>>

\* one call of sshAuthMethodAgent: it probes for a running local key agent and,
\* when there is one, gives the method offering the agent's keys, else nil
sshAuthMethodAgent(f, agent) ==
    [factory |-> [f EXCEPT !.agentProbes = @ + 1],
     method |-> IF agent THEN "agent" ELSE "nil"]

\* line 246: sshAuthMethodAgent() is called to see whether there is an agent
ProbeAgent ==
    /\ ProcessAlive
    /\ \E c \in DOMAIN callers :
        /\ callers[c].pc = "agent"
        /\ \E agent \in BOOLEAN :
            LET r == sshAuthMethodAgent(factory, agent)
            IN  /\ factory' = r.factory
                /\ resolving' = [resolving EXCEPT !.agent = agent]
                /\ callers' = [callers EXCEPT
                                 ![c].pc = IF r.method # "nil" THEN "agent2" ELSE "store"]
    /\ UNCHANGED <<aroundFactory, once, returned>>

\* line 247: sshAuthMethodAgent() is called again for the method that is appended
ProbeAgentAgain ==
    /\ ProcessAlive
    /\ \E c \in DOMAIN callers :
        /\ callers[c].pc = "agent2"
        /\ LET r == sshAuthMethodAgent(factory, resolving.agent)
           IN  /\ factory' = r.factory
               /\ resolving' = [resolving EXCEPT !.methods = Append(@, r.method)]
        /\ callers' = [callers EXCEPT ![c].pc = "store"]
    /\ UNCHANGED <<aroundFactory, once, returned>>

\* lines 250-253: the methods are stored in the factory and Do returns
StoreMethods ==
    /\ ProcessAlive
    /\ \E c \in DOMAIN callers :
        /\ callers[c].pc = "store"
        /\ factory' = [factory EXCEPT !.authMethods = resolving.methods, !.resolved = TRUE]
        /\ once' = "done"
        /\ callers' = [callers EXCEPT ![c].pc = "ret"]
    /\ UNCHANGED <<aroundFactory, resolving, returned>>

\* lines 255-259: the ssh.ClientConfig returned, made of the factory's fields
ClientConfig(f) == [User |-> f.user, Auth |-> f.authMethods]

\* line 255: Config() returns
ConfigReturn ==
    /\ ProcessAlive
    /\ \E c \in DOMAIN callers :
        /\ callers[c].pc = "ret"
        /\ returned' = Append(returned, ClientConfig(factory))
        /\ callers' = [callers EXCEPT ![c].pc = "idle", ![c].calls = @ + 1]
    /\ UNCHANGED <<aroundFactory, factory, once, resolving>>

NextConfig ==
    \/ ConfigCall
    \/ ReadKeyFile
    \/ ProbeAgent
    \/ ProbeAgentAgain
    \/ StoreMethods
    \/ ConfigReturn

SpecConfig == InitConfig /\ [][NextConfig]_vars

\* ------------------------------------------------------------------------
\* EstablishClient
\* ------------------------------------------------------------------------

\* the arguments EstablishClient is called with
EstablishUsers == { <<"u">>, <<"m">> }
EstablishIdentities == { <<"h">>, <<>> }
Tokens == {"", "tok"}

InitEstablish ==
    /\ ConfigIdle
    /\ TokenIdle
    /\ FilesIdle
    /\ pc = "ec_config"
    /\ args = <<<<>>, <<>>>>
    /\ recursive = FALSE
    /\ SshKeyPath \in {"keyfile"}
    /\ ZConfig \in {"cfgfile"}
    /\ username \in EstablishUsers
    /\ targetIdentity \in EstablishIdentities
    /\ token \in Tokens
    /\ jwt = ""
    /\ remoteFilePath = NoString
    /\ localFilePath = NoString
    /\ isCopyToRemote = FALSE
    /\ fatalReason = ""
    /\ ctx = "none"
    /\ svc = "none"
    /\ dialIdentity = NoString
    /\ factory = [made |-> FALSE]
    /\ sshConn = "none"
    /\ client = "none"
    /\ defers = <<>>
    /\ plan = <<>>
    /\ pos = 1
    /\ walkErr = FALSE
    /\ transfers = <<>>
    /\ ops = <<>>

\* what no step of EstablishClient touches
aroundEstablish == <<configVars, tokenVars, fileVars, token, inputVars, flagVars, parseVars, client, defers,
                     transferVars>>

\* lines 327, 366-371: getConfig loads the configuration file or ends the process
EcGetConfig ==
    /\ pc = "ec_config"
    /\ \E loaded \in BOOLEAN :
        IF loaded
        THEN /\ pc' = "ec_context"
             /\ UNCHANGED fatalReason
        ELSE Fatal("config")
    /\ UNCHANGED <<aroundEstablish, jwt, ctx, svc, dialIdentity, factory, sshConn>>

\* lines 328-332: the context is made and the token added to the credentials of
\* the configuration; the error of ziti.NewContext is looked at after that
EcNewContext ==
    /\ pc = "ec_context"
    /\ jwt' = token
    /\ \E ok \in BOOLEAN :
        IF ok
        THEN /\ ctx' = "open"
             /\ pc' = "ec_service"
             /\ UNCHANGED fatalReason
        ELSE /\ Fatal("context")
             /\ UNCHANGED ctx
    /\ UNCHANGED <<aroundEstablish, svc, dialIdentity, factory, sshConn>>

\* a service check that logs the missing service and goes on to dial
EcCheckServiceGoesOn ==
    /\ pc = "ec_service"
    /\ \E ok \in BOOLEAN :
        /\ pc' = "ec_dial"
        /\ fatalReason' = IF ok THEN fatalReason ELSE "service"
    /\ UNCHANGED <<aroundEstablish, jwt, ctx, svc, dialIdentity, factory, sshConn>>

\* lines 334-337: the service must be one the context knows
EcCheckService ==
    /\ pc = "ec_service"
    /\ \E ok \in BOOLEAN :
        IF ok
        THEN /\ pc' = "ec_dial"
             /\ UNCHANGED fatalReason
        ELSE Fatal("service")
    /\ UNCHANGED <<aroundEstablish, jwt, ctx, svc, dialIdentity, factory, sshConn>>

\* lines 339-348: the service is dialed with targetIdentity
EcDialService ==
    /\ pc = "ec_dial"
    /\ dialIdentity' = targetIdentity
    /\ \E ok \in BOOLEAN :
        IF ok
        THEN /\ svc' = "open"
             /\ pc' = "ec_creds"
             /\ UNCHANGED fatalReason
        ELSE /\ Fatal("dial")
             /\ UNCHANGED svc
    /\ UNCHANGED <<aroundEstablish, jwt, ctx, factory, sshConn>>

\* lines 350-351: the factory is made and Config() resolves the credentials;
\* EstablishClient has no deferred function to run when that panics
EcResolveCredentials ==
    /\ pc = "ec_creds"
    /\ \E o \in KeyFileOutcomes, agent \in BOOLEAN :
        LET f == NewSshConfigFactoryImpl(username, SshKeyPath)
        IN  IF AuthMethodFromFile(o) = "panic"
            THEN /\ factory' = [f EXCEPT !.keyReads = 1]
                 /\ pc' = "panic"
            ELSE /\ factory' = [f EXCEPT !.resolved = TRUE,
                                         !.authMethods = ResolvedMethods(o, agent),
                                         !.keyReads = 1,
                                         !.agentProbes = AgentCalls(agent)]
                 /\ pc' = "ec_sshdial"
    /\ UNCHANGED <<aroundEstablish, jwt, fatalReason, ctx, svc, dialIdentity, sshConn>>

\* lines 352-356: the ssh client is negotiated over the connection and returned
EcSshDial ==
    /\ pc = "ec_sshdial"
    /\ \E ok \in BOOLEAN :
        IF ok
        THEN /\ sshConn' = "open"
             /\ pc' = "ec_done"
             /\ UNCHANGED fatalReason
        ELSE /\ Fatal("ssh")
             /\ UNCHANGED sshConn
    /\ UNCHANGED <<aroundEstablish, jwt, ctx, svc, dialIdentity, factory>>

NextEstablish ==
    \/ EcGetConfig
    \/ EcNewContext
    \/ EcCheckService
    \/ EcDialService
    \/ EcResolveCredentials
    \/ EcSshDial

\* session establishment as Run does it and as EstablishClient does it
InitSession == Init \/ InitEstablish

NextSession == Next \/ NextEstablish

SpecSession == InitSession /\ [][NextSession]_vars

\* ------------------------------------------------------------------------
\* GetToken
\* ------------------------------------------------------------------------

\* line 56
OktaAuthScope == <<"o", "p", "e", "n", "i", "d", " ", "p", "r", "o", "f", "i", "l", "e">>

\* what securecookie.GenerateRandomKey(32) can return
RandomKeys == {"k1", "k2"}

\* the Configs GetToken is called with
ClientIDs == {"", "id"}
ClientSecrets == {"", "secret"}
GivenKeys == {"nil", "k0"}
GivenLogfs == {"nil", "logf"}
GivenScopes == { <<>>, << <<"x">> >> }
GivenConfigs ==
    [ClientID : ClientIDs, ClientSecret : ClientSecrets, HashKey : GivenKeys,
     BlockKey : GivenKeys, Logf : GivenLogfs, Scopes : GivenScopes]

\* the ID tokens the provider can issue
IDTokens == {"idtok1", "idtok2"}

\* every variable of Run, with no invocation of Run under way
InitToken ==
    /\ RunIdle
    /\ factory = [made |-> FALSE]
    /\ ConfigIdle
    /\ EstablishIdle
    /\ FilesIdle
    /\ config \in GivenConfigs
    /\ given = config
    /\ tokenPc = "validate"
    /\ relyingParty = "none"
    /\ codeFlow = "none"
    /\ tokenResult = NoResult

\* what GetToken does not touch
aroundToken == <<configVars, establishVars, fileVars, given, pc, args, recursive, SshKeyPath,
                 ZConfig, username, targetIdentity, remoteFilePath, localFilePath,
                 isCopyToRemote, fatalReason, ctx, svc, dialIdentity, factory, sshConn,
                 client, defers, plan, pos, walkErr, transfers, ops>>

\* a validateAndSetDefaults that sets the defaults first and validates after
DefaultsBeforeValidate(c, hashKey, blockKey) ==
    [config |-> [c EXCEPT !.HashKey = hashKey,
                          !.BlockKey = blockKey,
                          !.Logf = IF @ = "nil" THEN "noop" ELSE @,
                          !.Scopes = Split(OktaAuthScope, " ")],
     err |-> IF c.ClientID = "" THEN "ClientID must be set" ELSE ""]

\* validateAndSetDefaults (lines 172-187): the Config it leaves and the error it
\* returns ("" for nil); hashKey and blockKey are the keys generated
validateAndSetDefaults(c, hashKey, blockKey) ==
    IF c.ClientID = ""
    THEN [config |-> c, err |-> "ClientID must be set"]
    ELSE [config |-> [c EXCEPT !.HashKey = hashKey,
                               !.BlockKey = blockKey,
                               !.Logf = IF @ = "nil" THEN "noop" ELSE @,
                               !.Scopes = Split(OktaAuthScope, " ")],
          err |-> ""]

\* lines 141-143: the Config is validated; an error is wrapped and returned
TokenValidate ==
    /\ tokenPc = "validate"
    /\ \E hashKey \in RandomKeys, blockKey \in RandomKeys :
        LET r == validateAndSetDefaults(config, hashKey, blockKey)
        IN  /\ config' = r.config
            /\ IF r.err # ""
               THEN /\ tokenResult' = [token |-> "", err |-> "invalid config: " \o r.err]
                    /\ tokenPc' = "returned"
               ELSE /\ tokenPc' = "rp"
                    /\ UNCHANGED tokenResult
    /\ UNCHANGED <<aroundToken, relyingParty, codeFlow>>

\* lines 145-158: the relying party is made, with PKCE when there is no client
\* secret; a failure to make it ends the process
TokenRelyingParty ==
    /\ tokenPc = "rp"
    /\ \E ok \in BOOLEAN :
        IF ok
        THEN /\ relyingParty' = [pkce |-> config.ClientSecret = "", scopes |-> config.Scopes]
             /\ tokenPc' = "flow"
        ELSE /\ tokenPc' = "fatal"
             /\ UNCHANGED relyingParty
    /\ UNCHANGED <<aroundToken, config, codeFlow, tokenResult>>

\* lines 161-168: cli.CodeFlow starts the callback listener, opens the browser
\* and waits for the tokens; the ID token is returned
TokenCodeFlow ==
    /\ tokenPc = "flow"
    /\ codeFlow' = "run"
    /\ \E t \in IDTokens : tokenResult' = [token |-> t, err |-> ""]
    /\ tokenPc' = "returned"
    /\ UNCHANGED <<aroundToken, config, relyingParty>>

NextToken ==
    \/ TokenValidate
    \/ TokenRelyingParty
    \/ TokenCodeFlow

SpecToken == InitToken /\ [][NextToken]_vars

\* ------------------------------------------------------------------------
\* SendFile and RetrieveRemoteFiles, step by step
\* ------------------------------------------------------------------------

\* what a file can hold when the function is called
Contents == {"", "A", "B"}
FileStates == Contents \cup {"absent"}

\* the paths the functions are called with
CalledLocalPath == <<"a">>
CalledRemotePath == <<"/", "d">>

InitFiles ==
    /\ RunIdle
    /\ factory = [made |-> FALSE]
    /\ ConfigIdle
    /\ EstablishIdle
    /\ TokenIdle
    /\ files \in [local : FileStates, remote : FileStates]
    /\ filesBefore = files
    /\ \E fn \in {"send", "retrieve"} :
        call = [NoCall EXCEPT !.fn = fn,
                              !.pc = IF fn = "send" THEN "read" ELSE "open",
                              !.localPath = CalledLocalPath,
                              !.remotePath = CalledRemotePath]
    /\ handles = NoHandles
    /\ fileLog = <<>>

\* what SendFile and RetrieveRemoteFiles do not touch
aroundFiles == <<configVars, establishVars, tokenVars, filesBefore, pc, args, recursive,
                 SshKeyPath, ZConfig, username, targetIdentity, remoteFilePath,
                 localFilePath, isCopyToRemote, fatalReason, ctx, svc, dialIdentity,
                 factory, sshConn, client, defers, plan, pos, walkErr, transfers, ops>>

\* a SendFile that does not return when the local file cannot be read
SendReadLocalGoesOn ==
    /\ call.fn = "send" /\ call.pc = "read"
    /\ \E ok \in BOOLEAN :
        /\ ok => files.local # "absent"
        /\ fileLog' = Append(fileLog, Op("lread", call.localPath, ok))
        /\ call' = [call EXCEPT !.buf = IF ok THEN files.local ELSE "",
                                !.pc = "ropen"]
    /\ UNCHANGED <<aroundFiles, files, handles>>

\* lines 282-286: the local file is read whole; SendFile returns when that fails
SendReadLocal ==
    /\ call.fn = "send" /\ call.pc = "read"
    /\ \E ok \in BOOLEAN :
        /\ ok => files.local # "absent"
        /\ fileLog' = Append(fileLog, Op("lread", call.localPath, ok))
        /\ call' = IF ok
                   THEN [call EXCEPT !.buf = files.local, !.pc = "ropen"]
                   ELSE [call EXCEPT !.err = "read", !.pc = "return"]
    /\ UNCHANGED <<aroundFiles, files, handles>>

\* lines 288-293: the remote file is opened for writing, created when it is not
\* there and truncated when it is; its close is deferred
SendOpenRemote ==
    /\ call.fn = "send" /\ call.pc = "ropen"
    /\ \E ok \in BOOLEAN :
        /\ fileLog' = Append(fileLog, Op("ropen", call.remotePath, ok))
        /\ IF ok
           THEN /\ files' = [files EXCEPT !.remote = ""]
                /\ handles' = [handles EXCEPT !.remote = "open"]
                /\ call' = [call EXCEPT !.defers = Append(@, "remote"), !.pc = "write"]
           ELSE /\ call' = [call EXCEPT !.err = "open", !.pc = "return"]
                /\ UNCHANGED <<files, handles>>
    /\ UNCHANGED aroundFiles

\* lines 295-300: what was read is written; a failed write may have written a part
SendWrite ==
    /\ call.fn = "send" /\ call.pc = "write"
    /\ \E ok \in BOOLEAN :
        /\ fileLog' = Append(fileLog, Op("rwrite", call.remotePath, ok))
        /\ IF ok
           THEN /\ files' = [files EXCEPT !.remote = call.buf]
                /\ call' = [call EXCEPT !.err = "", !.pc = "return"]
           ELSE /\ \E left \in {"", "part"} : files' = [files EXCEPT !.remote = left]
                /\ call' = [call EXCEPT !.err = "write", !.pc = "return"]
    /\ UNCHANGED <<aroundFiles, handles>>

\* a RetrieveRemoteFiles that does not return when the remote file cannot be opened
RetOpenRemoteGoesOn ==
    /\ call.fn = "retrieve" /\ call.pc = "open"
    /\ \E ok \in BOOLEAN :
        /\ ok => files.remote # "absent"
        /\ fileLog' = Append(fileLog, Op("ropen", call.remotePath, ok))
        /\ IF ok
           THEN /\ handles' = [handles EXCEPT !.remote = "open"]
                /\ call' = [call EXCEPT !.defers = Append(@, "remote"), !.pc = "lopen"]
           ELSE /\ call' = [call EXCEPT !.pc = "lopen"]
                /\ UNCHANGED handles
    /\ UNCHANGED <<aroundFiles, files>>

\* lines 305-309: the remote file is opened for reading; its close is deferred
RetOpenRemote ==
    /\ call.fn = "retrieve" /\ call.pc = "open"
    /\ \E ok \in BOOLEAN :
        /\ ok => files.remote # "absent"
        /\ fileLog' = Append(fileLog, Op("ropen", call.remotePath, ok))
        /\ IF ok
           THEN /\ handles' = [handles EXCEPT !.remote = "open"]
                /\ call' = [call EXCEPT !.defers = Append(@, "remote"), !.pc = "lopen"]
           ELSE /\ call' = [call EXCEPT !.err = "ropen", !.pc = "return"]
                /\ UNCHANGED handles
    /\ UNCHANGED <<aroundFiles, files>>

\* lines 311-315: the local file is opened for writing, created when it is not
\* there and truncated when it is; its close is deferred
RetOpenLocal ==
    /\ call.fn = "retrieve" /\ call.pc = "lopen"
    /\ \E ok \in BOOLEAN :
        /\ fileLog' = Append(fileLog, Op("lopen", call.localPath, ok))
        /\ IF ok
           THEN /\ files' = [files EXCEPT !.local = ""]
                /\ handles' = [handles EXCEPT !.local = "open"]
                /\ call' = [call EXCEPT !.defers = Append(@, "local"), !.pc = "copy"]
           ELSE /\ call' = [call EXCEPT !.err = "lopen", !.pc = "return"]
                /\ UNCHANGED <<files, handles>>
    /\ UNCHANGED aroundFiles

\* lines 317-323: the remote content is copied to the local file; a failed copy
\* may have written a part
RetCopy ==
    /\ call.fn = "retrieve" /\ call.pc = "copy"
    /\ \E ok \in BOOLEAN :
        /\ fileLog' = Append(fileLog, Op("copy", call.localPath, ok))
        /\ IF ok
           THEN /\ files' = [files EXCEPT !.local = files.remote]
                /\ call' = [call EXCEPT !.err = "", !.pc = "return"]
           ELSE /\ \E left \in {"", "part"} : files' = [files EXCEPT !.local = left]
                /\ call' = [call EXCEPT !.err = "copy", !.pc = "return"]
    /\ UNCHANGED <<aroundFiles, handles>>

\* the close operations of the deferred functions registered, last registered first
RECURSIVE DeferredCloses(_, _)
DeferredCloses(c, n) ==
    IF n = 0 THEN <<>>
    ELSE <<Op(IF c.defers[n] = "remote" THEN "rclose" ELSE "lclose",
              IF c.defers[n] = "remote" THEN c.remotePath ELSE c.localPath,
              TRUE)>> \o DeferredCloses(c, n - 1)

\* lines 293, 309, 315: the function returns; every deferred Close runs
FileReturn ==
    /\ call.pc = "return"
    /\ fileLog' = fileLog \o DeferredCloses(call, Len(call.defers))
    /\ handles' = [h \in DOMAIN handles |->
                     IF \E n \in DOMAIN call.defers : call.defers[n] = h
                     THEN "closed" ELSE handles[h]]
    /\ call' = [call EXCEPT !.pc = "returned"]
    /\ UNCHANGED <<aroundFiles, files>>

NextFiles ==
    \/ SendReadLocal
    \/ SendOpenRemote
    \/ SendWrite
    \/ RetOpenRemote
    \/ RetOpenLocal
    \/ RetCopy
    \/ FileReturn

SpecFiles == InitFiles /\ [][NextFiles]_vars

\* ------------------------------------------------------------------------
\* Properties
\* ------------------------------------------------------------------------

RecursiveUpload == isCopyToRemote /\ recursive
InWalk == RecursiveUpload /\ pc \in {"walk", "return", "done", "fatal", "panic"} /\ plan # <<>>

\* the part of s before its first c, and the part after it
BeforeFirst(s, c) == SubSeq(s, 1, IndexOf(s, c) - 1)
AfterFirst(s, c) == SubSeq(s, IndexOf(s, c) + 1, Len(s))

\* the mirrored destination of the entry rel of the tree rooted at root: the
\* destination root joined with the entry's path from the root's own name down
MirroredDestination(remotePath, root, rel) == Join(remotePath, PathOf(Base(root), rel))

\* C1: in a recursive upload every visited entry is sent to the destination root
\* joined with its path relative to the source root (nesting kept), and no two
\* distinct entries are sent to the same remote path.
C1_MirroredDestinations ==
    InWalk =>
        /\ \A i \in DOMAIN transfers :
            transfers[i].dst = MirroredDestination(remoteFilePath, localFilePath, plan[i].rel)
        /\ \A i, j \in DOMAIN transfers :
            plan[i].rel # plan[j].rel => transfers[i].dst # transfers[j].dst

FailedSend(i) == transfers[i].kind = "file" /\ transfers[i].err
FailedMkdir(i) == transfers[i].kind = "dir" /\ transfers[i].err

\* C2: in a recursive upload the first file whose send fails ends the walk: it is
\* the last transfer ever requested, no file operation follows it, and the
\* invocation ends fatally with a non-zero exit status.
C2_FileFailureAbortsWalk ==
    /\ [](RecursiveUpload =>
            \A i \in DOMAIN transfers :
                FailedSend(i) =>
                    /\ i = Len(transfers)
                    /\ pc \in {"walk", "fatal"}
                    /\ pc = "fatal" => fatalReason = "walk" /\ ExitStatus # 0)
    /\ [][(RecursiveUpload /\ \E i \in DOMAIN transfers : FailedSend(i)) =>
            (ops' = ops /\ transfers' = transfers /\ pc' = "fatal")]_vars

\* C2 witness: a send failed while entries were still to be visited, and the
\* invocation ended fatally
C2_Witness ==
    /\ RecursiveUpload
    /\ pc = "fatal"
    /\ \E i \in DOMAIN transfers : FailedSend(i)
    /\ Len(transfers) < Len(plan)

\* C3: in a recursive upload a failed directory creation does not end the run:
\* the walk goes on through every remaining entry in order, and the run ends
\* fatally only when a file send failed.
C3_MkdirFailureContinues ==
    (RecursiveUpload /\ \E i \in DOMAIN transfers : FailedMkdir(i)) =>
        /\ pc \in {"walk", "return", "done", "fatal"}
        /\ \A i \in DOMAIN transfers : i <= Len(plan) /\ transfers[i].src = plan[i].path
        /\ (pc = "fatal" \/ walkErr) => \E j \in DOMAIN transfers : FailedSend(j)
        /\ (pc = "walk" /\ ~walkErr) => pos = Len(transfers) + 1
        /\ pc \in {"return", "done"} => Len(transfers) = Len(plan)

\* C3 witness: a directory creation failed, later entries were still visited, and
\* the run completed normally
C3_Witness ==
    /\ RecursiveUpload
    /\ pc = "done"
    /\ \E i \in DOMAIN transfers : FailedMkdir(i) /\ i < Len(transfers)
    /\ Len(transfers) = Len(plan)

\* C4: once the connection is dialed, and once the sftp client exists, each is
\* closed before the process ends, however it ends.
C4_ResourcesReleased ==
    Terminated => (svc # "open" /\ client # "open")

\* the invocation got past the interpretation of its arguments
Interpreted ==
    /\ pc \notin {"start", "interpret"}
    /\ ~(pc = "fatal" /\ fatalReason \in {"home", "ambiguous", "user"})

ExactlyOneRemote(a) == ContainsAny(a[1], ":") # ContainsAny(a[2], ":")
TheRemoteArg(a) == IF ContainsAny(a[1], ":") THEN a[1] ELSE a[2]
TheLocalArg(a) == IF ContainsAny(a[1], ":") THEN a[2] ELSE a[1]

\* C5: when exactly one argument contains ':', the direction is download if it
\* is the first and upload if it is the second, the local path is the other
\* argument, and a remote argument user@identity:path gives that user, identity
\* and path.
C5_Decomposition ==
    (ExactlyOneRemote(args) /\ Interpreted) =>
        LET remote == TheRemoteArg(args)
            prefix == BeforeFirst(remote, ":")
        IN  /\ isCopyToRemote = ContainsAny(args[2], ":")
            /\ localFilePath = TheLocalArg(args)
            /\ ContainsAny(prefix, "@") =>
                /\ username = BeforeFirst(prefix, "@")
                /\ targetIdentity = AfterFirst(prefix, "@")
                /\ remoteFilePath = AfterFirst(remote, ":")

\* C6: when the remote argument's prefix contains no '@', the user is the local
\* OS user and the identity, also the one dialed, is that whole prefix.
C6_IdentityIsPrefix ==
    (ExactlyOneRemote(args) /\ Interpreted) =>
        LET prefix == BeforeFirst(TheRemoteArg(args), ":")
        IN  ~ContainsAny(prefix, "@") =>
                /\ username \in {LocalUserName(n, g) : n \in OsUserNames, g \in GoosValues}
                /\ targetIdentity = prefix
                /\ dialIdentity \in {NoString, prefix}

NeitherRemote(a) == ~ContainsAny(a[1], ":") /\ ~ContainsAny(a[2], ":")

NothingStarted ==
    /\ ctx = "none"
    /\ svc = "none"
    /\ dialIdentity = NoString
    /\ ~factory.made
    /\ sshConn = "none"
    /\ client = "none"
    /\ transfers = <<>>
    /\ ops = <<>>

\* C7 as stated: when neither argument contains ':', the invocation fails with
\* the ambiguous-endpoints error, with no context opened, nothing dialed, no
\* credential resolved and no file transferred.
C7_AmbiguousOnly ==
    NeitherRemote(args) =>
        /\ NothingStarted
        /\ pc \in {"start", "interpret", "fatal"}
        /\ pc = "fatal" => fatalReason = "ambiguous"

\* C7, amended: when neither argument contains ':', the invocation fails fatally
\* with no context opened, nothing dialed, no credential resolved and no file
\* transferred; the error is the ambiguous-endpoints error, unless a default key
\* or configuration path was needed and the home directory lookup failed first.
C7_AmbiguousOrNoHome ==
    NeitherRemote(args) =>
        /\ NothingStarted
        /\ pc \in {"start", "interpret", "fatal"}
        /\ pc = "fatal" => fatalReason \in {"ambiguous", "home"}
        /\ fatalReason = "home" => (SshKeyPath = "" \/ ZConfig = "")

\* C7 witness: an invocation with no ':' in either argument, ended by the
\* ambiguous-endpoints error
C7_Witness ==
    /\ NeitherRemote(args)
    /\ pc = "fatal"
    /\ fatalReason = "ambiguous"

\* C8: an invocation that goes on to session establishment has exactly one
\* remote endpoint; a pair with ':' in both arguments is rejected.
C8_ExactlyOneRemote ==
    Interpreted => ExactlyOneRemote(args)

\* what c.Lstat of the remote path can find
LstatResults == {"dir", "file", "error"}

\* C9: a single-file upload writes to the destination inferred from the remote
\* path: the local base name when it is blank, the directory joined with the
\* local base name when it is an existing remote directory, else the path as is.
C9_DestinationInferred ==
    (isCopyToRemote /\ ~recursive) =>
        \A i \in DOMAIN transfers :
            transfers[i].dst \in
                {AppendBaseName(remoteFilePath, localFilePath, l) : l \in LstatResults}

\* C10: when the single-file upload or the download returns an error, the
\* invocation ends fatally with a non-zero exit status, never as a success.
C10_TransferErrorIsFatal ==
    (Terminated /\ ~RecursiveUpload /\ \E i \in DOMAIN transfers : transfers[i].err) =>
        (pc = "fatal" /\ ExitStatus # 0)

\* C11: over any number of Config() calls on one factory, the key file is read at
\* most once, the key agent is probed at most once in total, and every call
\* returns the same credential sequence as the first.
C11_ResolvedOnce ==
    /\ factory.keyReads <= 1
    /\ factory.agentProbes <= 1
    /\ \A i \in DOMAIN returned : returned[i].Auth = returned[1].Auth

\* the credential sequence the resolver is to produce: the file key when the key
\* file loaded and parsed, then the agent key when there is an agent
ExpectedMethods(o, agent) ==
    (IF o = "ok" THEN <<"file">> ELSE <<>>) \o (IF agent THEN <<"agent">> ELSE <<>>)

\* C12: once the key file has been tried, the resolution is not aborted: the
\* agent is tried as well, and the sequence stored and returned is the file key
\* exactly when the key file loaded and parsed, followed by the agent key exactly
\* when there is an agent.
C12_MethodsResolved ==
    /\ ProcessAlive
    /\ once = "done" =>
        /\ resolving.agent \in BOOLEAN
        /\ factory.authMethods = ExpectedMethods(resolving.keyOutcome, resolving.agent)
    /\ \A i \in DOMAIN returned :
        returned[i].Auth = ExpectedMethods(resolving.keyOutcome, resolving.agent)

\* C15: the remote argument is split at its first ':' only and its prefix at
\* its first '@' only: the remote path is everything after the first ':' and
\* the identity everything of the prefix after the first '@'.
C15_SplitAtFirst ==
    (ExactlyOneRemote(args) /\ Interpreted) =>
        LET remote == TheRemoteArg(args)
            prefix == BeforeFirst(remote, ":")
        IN  /\ remoteFilePath = AfterFirst(remote, ":")
            /\ ContainsAny(prefix, "@") => targetIdentity = AfterFirst(prefix, "@")

\* r is an entry above q, or q itself
IsPrefix(r, q) == Len(r) <= Len(q) /\ SubSeq(q, 1, Len(r)) = r

\* the creation of the directory r of the local tree has been requested
MkdirIssued(r) ==
    \E i \in DOMAIN transfers :
        /\ transfers[i].kind = "dir"
        /\ transfers[i].src = PathOf(localFilePath, r)
        /\ \E k \in DOMAIN ops : ops[k].op = "mkdir" /\ ops[k].path = transfers[i].dst

\* C14: a recursive upload processes the entries one at a time in pre-order (an
\* entry before what is below it, a subtree finished before the next begins),
\* and when the send of a file is attempted the creation of every local
\* directory containing it, from the source root down to its parent, has
\* already been requested.
C14_PreOrder ==
    /\ [](InWalk =>
            /\ Len(transfers) <= Len(plan)
            /\ \A j \in DOMAIN transfers :
                /\ transfers[j].src = plan[j].path
                /\ \A n \in 0..(Len(plan[j].rel) - 1) :
                    \E i \in 1..(j - 1) :
                        /\ plan[i].rel = SubSeq(plan[j].rel, 1, n)
                        /\ transfers[i].kind = "dir"
                /\ \A i \in 1..(j - 1) : \A k \in (j + 1)..Len(transfers) :
                    IsPrefix(plan[i].rel, plan[k].rel) => IsPrefix(plan[i].rel, plan[j].rel))
    /\ [][RecursiveUpload =>
            /\ Len(transfers') <= Len(transfers) + 1
            /\ Len(transfers') = Len(transfers) + 1 =>
                LET j == Len(transfers')
                IN  /\ SubSeq(transfers', 1, Len(transfers)) = transfers
                    /\ pos' = pos + 1
                    /\ transfers'[j].kind = "file" =>
                        \A n \in 0..(Len(plan[j].rel) - 1) :
                            MkdirIssued(SubSeq(plan[j].rel, 1, n))]_vars

\* C14 witness: a file two levels below the source root has been sent
C14_Witness ==
    /\ RecursiveUpload
    /\ \E j \in DOMAIN transfers :
        /\ transfers[j].kind = "file"
        /\ Len(plan[j].rel) = 2

\* the place of each step of session establishment in the order config load,
\* context open, service check, dial, credential resolution, negotiation, file
\* transfer client; 8 once the session is established, 9 once it has failed
SessionRank(p) ==
    CASE p \in {"context", "ec_config"} -> 1
      [] p = "ec_context" -> 2
      [] p \in {"service", "ec_service"} -> 3
      [] p \in {"dial", "ec_dial"} -> 4
      [] p \in {"creds", "ec_creds"} -> 5
      [] p \in {"sshdial", "ec_sshdial"} -> 6
      [] p = "sftp" -> 7
      [] p \in {"fatal", "panic"} -> 9
      [] p \in {"start", "interpret"} -> 0
      [] OTHER -> 8

\* C13: when the service is not advertised the session establishment ends
\* fatally with nothing dialed, no credential resolved and nothing negotiated,
\* whatever the token and the key file are; the steps config load, context open,
\* service check, dial, negotiation run in that order, each at most once, and
\* nothing runs after a step failed.
C13_StepsInOrder ==
    /\ [](/\ fatalReason = "service" =>
                /\ pc = "fatal"
                /\ ctx = "open"
                /\ dialIdentity = NoString
                /\ svc = "none"
                /\ ~factory.made
                /\ sshConn = "none"
                /\ client = "none"
          /\ fatalReason \in {"config", "context"} => ctx = "none" /\ dialIdentity = NoString
          /\ dialIdentity # NoString => ctx = "open"
          /\ fatalReason = "dial" => svc = "none"
          /\ factory.made => svc # "none" /\ dialIdentity # NoString
          /\ sshConn # "none" => factory.made /\ factory.resolved
          /\ client # "none" => sshConn # "none"
          /\ fatalReason # "" => pc = "fatal")
    /\ [][/\ pc \notin {"fatal", "panic"}
          /\ SessionRank(pc) \in 1..7 => SessionRank(pc') > SessionRank(pc)
          /\ SessionRank(pc') >= SessionRank(pc)
          /\ ctx # "none" => ctx' = ctx
          /\ dialIdentity # NoString => dialIdentity' = dialIdentity
          /\ factory.made => factory' = factory
          /\ sshConn # "none" => sshConn' = sshConn]_vars

\* C13 witness: EstablishClient was given a token and ended on the service that
\* is not advertised
C13_Witness ==
    /\ pc = "fatal"
    /\ fatalReason = "service"
    /\ token # ""
    /\ jwt = token

\* C16: GetToken called with an empty client identifier returns an invalid-config
\* error, never makes the relying party and never starts the code flow (callback
\* listener, browser), and leaves HashKey, BlockKey, Logf and Scopes of the
\* Config as they were.
C16_InvalidConfig ==
    (tokenPc # "idle" /\ given.ClientID = "") =>
        /\ tokenPc \in {"validate", "returned"}
        /\ relyingParty = "none"
        /\ codeFlow = "none"
        /\ config.HashKey = given.HashKey
        /\ config.BlockKey = given.BlockKey
        /\ config.Logf = given.Logf
        /\ config.Scopes = given.Scopes
        /\ tokenPc = "returned" =>
            /\ tokenResult.token = ""
            /\ tokenResult.err = "invalid config: ClientID must be set"

\* C16 witness: GetToken has returned for a Config without client identifier
\* whose keys, logger and scopes were set
C16_Witness ==
    /\ tokenPc = "returned"
    /\ given.ClientID = ""
    /\ given.HashKey # "nil"
    /\ given.Logf # "nil"
    /\ given.Scopes # <<>>

\* the operations of the log that are on the remote file, and on the local file
RemoteOps == {"ropen", "rwrite", "rclose"}
LocalWriteOps == {"lopen", "copy", "lclose"}
Logged(op, ok) == \E k \in DOMAIN fileLog : fileLog[k].op = op /\ fileLog[k].ok = ok

\* C17: SendFile reads the local file before anything is done on the remote
\* side; when the read fails the remote file is not opened, created or
\* truncated and keeps its content; and a remote handle that was opened is
\* closed when SendFile has returned, whether the write succeeded or failed.
C17_SendReadsFirst ==
    call.fn = "send" =>
        /\ \A k \in DOMAIN fileLog :
            fileLog[k].op \in RemoteOps =>
                k > 1 /\ fileLog[1] = Op("lread", call.localPath, TRUE)
        /\ Logged("lread", FALSE) =>
            /\ call.pc \in {"return", "returned"}
            /\ call.err = "read"
            /\ \A k \in DOMAIN fileLog : fileLog[k].op \notin RemoteOps
            /\ handles.remote = "none"
            /\ files.remote = filesBefore.remote
        /\ handles.remote # "none" <=> Logged("ropen", TRUE)
        /\ call.pc = "returned" =>
            /\ handles.remote # "open"
            /\ call.err \in {"", "write"} => handles.remote = "closed"

\* C17 witness: SendFile has returned on a failed local read while the remote
\* file existed with content
C17_Witness ==
    /\ call.fn = "send"
    /\ call.pc = "returned"
    /\ call.err = "read"
    /\ filesBefore.remote \in {"A", "B"}

\* C18: RetrieveRemoteFiles opens the remote file before anything is done on the
\* local side; when that open fails the local file is not created or truncated
\* and keeps its content; and every handle that was opened is closed when the
\* function has returned.
C18_RetrieveOpensFirst ==
    call.fn = "retrieve" =>
        /\ \A k \in DOMAIN fileLog :
            fileLog[k].op \in LocalWriteOps =>
                k > 1 /\ fileLog[1] = Op("ropen", call.remotePath, TRUE)
        /\ Logged("ropen", FALSE) =>
            /\ call.pc \in {"return", "returned"}
            /\ call.err = "ropen"
            /\ \A k \in DOMAIN fileLog : fileLog[k].op \notin LocalWriteOps
            /\ handles.local = "none"
            /\ files.local = filesBefore.local
        /\ handles.remote # "none" <=> Logged("ropen", TRUE)
        /\ handles.local # "none" <=> Logged("lopen", TRUE)
        /\ call.pc = "returned" =>
            /\ handles.remote # "open"
            /\ handles.local # "open"

\* C18 witness: RetrieveRemoteFiles has returned on a failed remote open while
\* the local file existed with content
C18_Witness ==
    /\ call.fn = "retrieve"
    /\ call.pc = "returned"
    /\ call.err = "ropen"
    /\ filesBefore.local \in {"A", "B"}
====
